---- MODULE Spec2Model ----
(***************************************************************************)
(* Model of chia/wallet/nft_wallet/nft_puzzles.py: the NFT metadata codec, *)
(* prepend_value / update_metadata, the transfer-solution builder, the     *)
(* condition walk get_metadata_and_phs and recurry_nft_puzzle.             *)
(*                                                                         *)
(* CLVM values are tagged records: an atom carries its bytes (a sequence   *)
(* of 0..255), a pair carries first and rest.  Python values are tagged    *)
(* records too (bytes, int, list, tuple, None, a wrapped Program).  A      *)
(* raised exception is the value Err(name); every operator propagates it.  *)
(***************************************************************************)
EXTENDS Integers, Sequences, FiniteSets, TLC

VARIABLES pc, inp, out

vars == <<pc, inp, out>>

\* ---------------------------------------------------------------- bounds
MaxKeys == 2
MaxConds == 3

\* ------------------------------------------------------- program constants
CREATE_COIN == 51
METADATA_UPDATE == -24
CHANGE_OWNER == -10
HINT == 1
MIN_LIST_LEN == 2
BYTES32_SIZE == 32

\* ------------------------------------------------------------ CLVM values
Atom(b) == [t |-> "atom", b |-> b]
Pair(f, r) == [t |-> "pair", f |-> f, r |-> r]
Err(e) == [t |-> "error", e |-> e]
Nil == Atom(<<>>)

IsErr(x) == x.t = "error"
IsAtom(x) == x.t = "atom"
IsPair(x) == x.t = "pair"

\* SExp.nullp
nullp(x) == IsAtom(x) /\ Len(x.b) = 0

\* SExp.first / SExp.rest: ValueError on a non-cons
first(x) == IF IsErr(x) THEN x ELSE IF IsPair(x) THEN x.f ELSE Err("ValueError")
rest(x) == IF IsErr(x) THEN x ELSE IF IsPair(x) THEN x.r ELSE Err("ValueError")

\* Program.at(path): one first/rest per character, left to right
RECURSIVE at(_, _)
at(x, path) ==
    IF Len(path) = 0 THEN x
    ELSE at(IF Head(path) = "f" THEN first(x) ELSE rest(x), Tail(path))

\* SExp.list_len: the number of pairs along the rest-spine
RECURSIVE list_len(_)
list_len(x) == IF IsPair(x) THEN 1 + list_len(x.r) ELSE 0

\* A proper CLVM list of the elements of a sequence
RECURSIVE SExpList(_)
SExpList(s) == IF Len(s) = 0 THEN Nil ELSE Pair(Head(s), SExpList(Tail(s)))

\* ---------------------------------------------------------- Python values
PyBytes(b) == [t |-> "bytes", b |-> b]
PyInt(n) == [t |-> "int", n |-> n]
PyList(l) == [t |-> "list", l |-> l]
PyTuple(x, y) == [t |-> "tuple", x |-> x, y |-> y]
PyProgram(p) == [t |-> "program", p |-> p]
PyNone == [t |-> "none"]

\* clvm.casts.int_from_bytes: big-endian, signed; b"" is 0 (the atoms the
\* model converts, opcodes and amounts, are at most 3 bytes long)
RECURSIVE Unsigned(_)
Unsigned(b) == IF Len(b) = 0 THEN 0 ELSE 256 * Unsigned(SubSeq(b, 1, Len(b) - 1)) + b[Len(b)]

Pow256(n) == IF n = 0 THEN 1 ELSE IF n = 1 THEN 256 ELSE IF n = 2 THEN 65536 ELSE 16777216

int_from_bytes(b) ==
    IF Len(b) = 0 THEN 0
    ELSE IF b[1] >= 128 THEN Unsigned(b) - Pow256(Len(b)) ELSE Unsigned(b)

\* clvm.casts.int_to_bytes: the minimal signed big-endian encoding; 0 is b""
int_to_bytes(v) ==
    IF v = 0 THEN <<>>
    ELSE IF v >= -128 /\ v <= 127 THEN << v % 256 >>
    ELSE IF v >= -32768 /\ v <= 32767 THEN << (v % 65536) \div 256, v % 256 >>
    ELSE << (v % 16777216) \div 65536, ((v % 16777216) \div 256) % 256, v % 256 >>

\* Program.to: bytes and ints become atoms, None and [] the nil atom, a list
\* a proper list, a 2-tuple a pair, a Program itself
RECURSIVE to_program(_)
to_program(v) ==
    CASE v.t = "bytes" -> Atom(v.b)
      [] v.t = "int" -> Atom(int_to_bytes(v.n))
      [] v.t = "none" -> Nil
      [] v.t = "program" -> v.p
      [] v.t = "tuple" -> Pair(to_program(v.x), to_program(v.y))
      [] v.t = "list" ->
            IF Len(v.l) = 0 THEN Nil
            ELSE Pair(to_program(Head(v.l)), to_program(PyList(Tail(v.l))))

\* SExp.as_python: an atom is its bytes; a pair whose rest converts to b"" is
\* a one-element list, one whose rest converts to a list extends that list,
\* any other pair is a 2-tuple
RECURSIVE as_python(_)
as_python(x) ==
    IF IsAtom(x) THEN PyBytes(x.b)
    ELSE LET left == as_python(x.f)
             right == as_python(x.r)
         IN IF right = PyBytes(<<>>) THEN PyList(<<left>>)
            ELSE IF right.t = "list" THEN PyList(<<left>> \o right.l)
            ELSE PyTuple(left, right)

\* ------------------------------------------------ dict (insertion ordered)
\* A dict is PyDict(d), d a sequence of [k, v] entries with distinct keys
\* (k the key's bytes), in insertion order.
PyDict(d) == [t |-> "dict", d |-> d]
HasKey(m, k) == \E i \in 1..Len(m.d) : m.d[i].k = k
DictGet(m, k) == m.d[CHOOSE i \in 1..Len(m.d) : m.d[i].k = k].v
DictSet(m, k, v) ==
    IF HasKey(m, k)
    THEN PyDict([i \in 1..Len(m.d) |-> IF m.d[i].k = k THEN [k |-> k, v |-> v] ELSE m.d[i]])
    ELSE PyDict(Append(m.d, [k |-> k, v |-> v]))

\* ----------------------------------------------------------- the codec
\* metadata_to_program: kv_list of (key, value) tuples in the dict's order,
\* through Program.to
metadata_to_program_reversed(metadata) ==
    to_program(PyList([i \in 1..Len(metadata.d) |->
        PyTuple(PyBytes(metadata.d[Len(metadata.d) + 1 - i].k),
                metadata.d[Len(metadata.d) + 1 - i].v)]))

metadata_to_program(metadata) ==
    to_program(PyList([i \in 1..Len(metadata.d) |->
                          PyTuple(PyBytes(metadata.d[i].k), metadata.d[i].v)]))

\* program_to_metadata: for each kv_pair of program.as_iter(), in order,
\* metadata[kv_pair.first().as_atom()] = kv_pair.rest().as_python()
RECURSIVE decode_into(_, _)
decode_into(program, metadata) ==
    IF nullp(program) THEN metadata
    ELSE IF ~IsPair(program) THEN Err("ValueError")
    ELSE LET kv_pair == program.f
         IN IF ~IsPair(kv_pair) THEN Err("ValueError")
            ELSE IF ~IsAtom(kv_pair.f) THEN Err("TypeError")
            ELSE decode_into(program.r,
                             DictSet(metadata, kv_pair.f.b, as_python(kv_pair.r)))

program_to_metadata(program) == decode_into(program, PyDict(<<>>))

\* prepend_value: the dict as the call leaves it, or the exception raised
\* (KeyError: metadata[key] of an absent key; AttributeError: .insert on a
\* value that is no list)
prepend_value_append(key, value, metadata) ==
    IF value # Nil
    THEN IF ~HasKey(metadata, key) THEN Err("KeyError")
         ELSE IF DictGet(metadata, key) = PyBytes(<<>>)
              THEN DictSet(metadata, key, PyList(<<as_python(value)>>))
              ELSE IF DictGet(metadata, key).t = "list"
                   THEN DictSet(metadata, key,
                                PyList(DictGet(metadata, key).l \o <<as_python(value)>>))
                   ELSE Err("AttributeError")
    ELSE metadata

prepend_value(key, value, metadata) ==
    IF value # Nil
    THEN IF ~HasKey(metadata, key) THEN Err("KeyError")
         ELSE IF DictGet(metadata, key) = PyBytes(<<>>)
              THEN DictSet(metadata, key, PyList(<<as_python(value)>>))
              ELSE IF DictGet(metadata, key).t = "list"
                   THEN DictSet(metadata, key,
                                PyList(<<as_python(value)>> \o DictGet(metadata, key).l))
                   ELSE Err("AttributeError")
    ELSE metadata

\* update_metadata: decode, uri = update_condition.rest().rest().first(),
\* prepend_value(uri.first().as_python(), uri.rest(), new_metadata), encode
update_metadata(metadata, update_condition) ==
    LET new_metadata == program_to_metadata(metadata)
        uri == first(rest(rest(update_condition)))
    IN IF IsErr(new_metadata) THEN new_metadata
       ELSE IF IsErr(uri) THEN uri
       ELSE IF ~IsPair(uri) THEN Err("ValueError")
       ELSE IF ~IsAtom(uri.f)
            THEN IF uri.r # Nil THEN Err("TypeError") ELSE metadata_to_program(new_metadata)
            ELSE LET updated == prepend_value(uri.f.b, uri.r, new_metadata)
                 IN IF IsErr(updated) THEN updated ELSE metadata_to_program(updated)

\* ------------------------------------------------- templates and engine
\* The loaded templates, as distinct opaque programs.
NFT_OWNERSHIP_LAYER == Pair(Atom(<<2>>), Atom(<<27>>))
STANDARD_PUZZLE_MOD == Pair(Atom(<<2>>), Atom(<<29>>))

\* Program.curry(*args): (2 (1 . mod) (4 (1 . a1) (4 (1 . a2) ... 1)))
RECURSIVE fixed_args(_)
fixed_args(args) ==
    IF Len(args) = 0 THEN Atom(<<1>>)
    ELSE SExpList(<< Atom(<<4>>), Pair(Atom(<<1>>), Head(args)), fixed_args(Tail(args)) >>)

curry(mod, args) == SExpList(<< Atom(<<2>>), Pair(Atom(<<1>>), mod), fixed_args(args) >>)

\* Byte strings of the model: a 32-byte digest and a 48-byte public key,
\* each filled with one byte value.
Bytes32(n) == [i \in 1..BYTES32_SIZE |-> n]
PubKey(n) == [i \in 1..48 |-> n]

PK1 == PubKey(11)
PK2 == PubKey(12)
PubKeys == {PK1, PK2}

\* Program.get_tree_hash, abstracted: an injective map from the programs
\* the model hashes to 32-byte digests.
HashedPrograms ==
    << NFT_OWNERSHIP_LAYER,
       curry(STANDARD_PUZZLE_MOD, <<Atom(PK1)>>),
       curry(STANDARD_PUZZLE_MOD, <<Atom(PK2)>>) >>

get_tree_hash(p) ==
    Bytes32(200 + (CHOOSE i \in 1..Len(HashedPrograms) : HashedPrograms[i] = p))

\* bytes32(x.atom): a pair has atom None (TypeError), any length but 32 is
\* a ValueError
bytes32(x) ==
    IF IsErr(x) THEN x
    ELSE IF ~IsAtom(x) THEN Err("TypeError")
    ELSE IF Len(x.b) # BYTES32_SIZE THEN Err("ValueError")
    ELSE PyBytes(x.b)

\* p2_delegated_puzzle_or_hidden_puzzle.solution_for_conditions:
\* Program.to([[], puzzle_for_conditions(conditions), 0]), the delegated
\* puzzle being (1 . conditions)
solution_for_conditions(conditions) ==
    to_program(PyList(<< PyList(<<>>),
                         PyProgram(Pair(Atom(<<1>>), to_program(conditions))),
                         PyProgram(to_program(PyInt(0))) >>))

\* ------------------------------------------------- the transfer solution
\* create_ownership_layer_transfer_solution; the conditions parameter is
\* accepted and not used
transfer_solution_swapped_hashes(new_did, new_did_inner_hash, trade_prices_list, new_pubkey, target_puzzle_hash, conditions) ==
    LET condition_list ==
            PyList(<<
                PyList(<< PyInt(CREATE_COIN),
                          PyBytes(target_puzzle_hash),
                          PyInt(HINT),
                          PyList(<<PyBytes(get_tree_hash(curry(STANDARD_PUZZLE_MOD, <<Atom(new_pubkey)>>)))>>) >>),
                PyList(<< PyInt(CHANGE_OWNER), PyBytes(new_did), trade_prices_list,
                          PyBytes(new_pubkey), PyList(<<PyBytes(new_did_inner_hash)>>) >>) >>)
    IN to_program(PyList(<< PyList(<<PyProgram(solution_for_conditions(condition_list))>>),
                            PyInt(1) >>))

transfer_solution_extended(new_did, new_did_inner_hash, trade_prices_list, new_pubkey, target_puzzle_hash, conditions) ==
    LET condition_list ==
            PyList(<<
                PyList(<< PyInt(CREATE_COIN),
                          PyBytes(get_tree_hash(curry(STANDARD_PUZZLE_MOD, <<Atom(new_pubkey)>>))),
                          PyInt(HINT),
                          PyList(<<PyBytes(target_puzzle_hash)>>) >>),
                PyList(<< PyInt(CHANGE_OWNER), PyBytes(new_did), trade_prices_list,
                          PyBytes(new_pubkey), PyList(<<PyBytes(new_did_inner_hash)>>) >>) >>
                \o conditions.l)
    IN to_program(PyList(<< PyList(<<PyProgram(solution_for_conditions(condition_list))>>),
                            PyInt(1) >>))

create_ownership_layer_transfer_solution(new_did, new_did_inner_hash, trade_prices_list, new_pubkey, target_puzzle_hash, conditions) ==
    LET condition_list ==
            PyList(<<
                PyList(<< PyInt(CREATE_COIN),
                          PyBytes(get_tree_hash(curry(STANDARD_PUZZLE_MOD, <<Atom(new_pubkey)>>))),
                          PyInt(HINT),
                          PyList(<<PyBytes(target_puzzle_hash)>>) >>),
                PyList(<< PyInt(CHANGE_OWNER), PyBytes(new_did), trade_prices_list,
                          PyBytes(new_pubkey), PyList(<<PyBytes(new_did_inner_hash)>>) >> ) >>)
    IN to_program(PyList(<< PyList(<<PyProgram(solution_for_conditions(condition_list))>>),
                            PyInt(1) >>))

\* ------------------------------------------------------ the condition walk
FRFR == << "f", "r", "f", "r" >>
RRRFF == << "r", "r", "r", "f", "f" >>
RF == << "r", "f" >>

\* The walk's locals: metadata, puzhash, inner_ph.
WalkState(metadata, puzhash, inner_ph) ==
    [t |-> "walk", metadata |-> metadata, puzhash |-> puzhash, inner_ph |-> inner_ph]

\* The destination branch of the loop body (lines 250-255)
destination_last_wins(st, condition) ==
    LET puzhash == bytes32(at(condition, RRRFF))
        inner_ph == bytes32(at(condition, RF))
    IN IF IsErr(puzhash) THEN puzhash
       ELSE IF IsErr(inner_ph) THEN inner_ph
       ELSE WalkState(st.metadata, puzhash, inner_ph)

record_destination(st, condition) ==
    IF st.puzhash # PyNone THEN st
    ELSE LET puzhash == bytes32(at(condition, RRRFF))
             inner_ph == bytes32(at(condition, RF))
         IN IF IsErr(puzhash) THEN puzhash
            ELSE IF IsErr(inner_ph) THEN inner_ph
            ELSE WalkState(st.metadata, puzhash, inner_ph)

\* The metadata branch of the loop body (lines 246-247)
apply_update_dropped(st, condition) == st

apply_update(st, condition) ==
    LET metadata == update_metadata(st.metadata, condition)
    IN IF IsErr(metadata) THEN metadata
       ELSE WalkState(metadata, st.puzhash, st.inner_ph)

\* One iteration of the loop of get_metadata_and_phs (lines 238-255)
condition_step(st, condition) ==
    IF list_len(condition) < MIN_LIST_LEN THEN st
    ELSE IF ~IsAtom(condition.f) THEN Err("TypeError")
    ELSE LET condition_code == int_from_bytes(condition.f.b)
         IN IF condition_code = METADATA_UPDATE THEN apply_update(st, condition)
            ELSE IF condition_code = CREATE_COIN
                 THEN LET hint == first(rest(rest(condition)))
                      IN IF IsErr(hint) THEN hint
                         ELSE IF ~IsAtom(hint) THEN Err("TypeError")
                         ELSE IF int_from_bytes(hint.b) = HINT
                              THEN record_destination(st, condition)
                              ELSE st
                 ELSE st

\* for condition in conditions: ... (as_iter raises on an improper tail)
RECURSIVE walk(_, _)
walk(conditions, st) ==
    IF IsErr(st) THEN st
    ELSE IF IsErr(conditions) THEN conditions
    ELSE IF nullp(conditions) THEN st
    ELSE IF ~IsPair(conditions) THEN Err("ValueError")
    ELSE walk(conditions.r, condition_step(st, conditions.f))

\* Python truth of unft.owner_did (None or bytes)
owner_did_truth(owner_did) == owner_did.t = "bytes" /\ Len(owner_did.b) > 0

get_metadata_and_phs_no_assert(unft, solution) ==
    walk(IF owner_did_truth(unft.owner_did) THEN at(solution, FRFR)
         ELSE rest(first(rest(solution))),
         WalkState(unft.metadata, PyNone, PyNone))

\* get_metadata_and_phs: the returned triple as a WalkState, or the
\* exception; the final assert raises AssertionError
get_metadata_and_phs(unft, solution) ==
    LET conditions == IF owner_did_truth(unft.owner_did)
                      THEN at(solution, FRFR)
                      ELSE rest(first(rest(solution)))
        st == walk(conditions, WalkState(unft.metadata, PyNone, PyNone))
    IN IF IsErr(st) THEN st
       ELSE IF st.puzhash = PyNone \/ st.inner_ph = PyNone THEN Err("AssertionError")
       ELSE st

\* ---------------------------------------------------------------- recurry
\* The for loop of recurry_nft_puzzle (lines 263-266): the value the loop
\* variable holds afterwards; PyNone when the loop body never ran and the
\* name is unbound
RECURSIVE change_did_scan(_, _)
change_did_scan(conditions, bound) ==
    IF IsErr(conditions) THEN conditions
    ELSE IF nullp(conditions) THEN bound
    ELSE IF ~IsPair(conditions) THEN Err("ValueError")
    ELSE LET change_did_condition == conditions.f
             opcode == first(change_did_condition)
         IN IF IsErr(opcode) THEN opcode
            ELSE IF ~IsAtom(opcode) THEN Err("TypeError")
            ELSE IF int_from_bytes(opcode.b) = CHANGE_OWNER THEN change_did_condition
            ELSE change_did_scan(conditions.r, change_did_condition)

\* Python truth of a Program object: the class defines neither __bool__
\* nor __len__, so every instance is true (line 267)
program_truth(p) == TRUE

\* recurry_nft_puzzle; the metadata parameter is accepted and not used
recurry_keeps_owner(unft, new_p2_puzzle, metadata, solution) ==
    LET change_did_condition == change_did_scan(at(solution, FRFR), PyNone)
    IN IF IsErr(change_did_condition) THEN change_did_condition
       ELSE IF change_did_condition = PyNone THEN Err("UnboundLocalError")
       ELSE curry(NFT_OWNERSHIP_LAYER,
                  << Atom(get_tree_hash(NFT_OWNERSHIP_LAYER)), Atom(unft.owner_did.b),
                     unft.transfer_program, new_p2_puzzle >>)

recurry_nft_puzzle(unft, new_p2_puzzle, metadata, solution) ==
    LET change_did_condition == change_did_scan(at(solution, FRFR), PyNone)
    IN IF IsErr(change_did_condition) THEN change_did_condition
       ELSE IF change_did_condition = PyNone THEN Err("UnboundLocalError")
       ELSE IF program_truth(change_did_condition)
            THEN LET new_did_id == at(change_did_condition, RF)
                 IN IF IsErr(new_did_id) THEN new_did_id
                    ELSE IF ~IsAtom(new_did_id) THEN Err("AttributeError")
                    ELSE curry(NFT_OWNERSHIP_LAYER,
                               << Atom(get_tree_hash(NFT_OWNERSHIP_LAYER)),
                                  new_did_id, unft.transfer_program, new_p2_puzzle >>)
            ELSE new_p2_puzzle

\* ------------------------------------------------------------- inputs
K_u == <<117>>
K_h == <<104>>
K_mu == <<109, 117>>
Keys == {K_u, K_h, K_mu}

V_a == <<97>>
V_b == <<98>>

PyValues ==
    { PyBytes(<<>>), PyBytes(V_a), PyList(<<>>), PyList(<<PyBytes(V_a)>>),
      PyList(<<PyBytes(V_b), PyBytes(V_a)>>), PyList(<<PyBytes(<<>>)>>) }

RECURSIVE DictsOfLen(_)
DictsOfLen(n) ==
    IF n = 0 THEN { <<>> }
    ELSE { Append(d, [k |-> k, v |-> v]) :
             d \in DictsOfLen(n - 1), k \in Keys, v \in PyValues }

Metadatas ==
    { PyDict(d) : d \in { e \in UNION { DictsOfLen(n) : n \in 0..MaxKeys } :
                            \A i, j \in 1..Len(e) : i # j => e[i].k # e[j].k } }

\* Owner ids, destinations and inner-puzzle hashes
DID0 == Bytes32(1)
DID1 == Bytes32(2)
DID2 == Bytes32(3)
TGT1 == Bytes32(21)
TGT2 == Bytes32(22)
PH1 == Bytes32(31)
PH2 == Bytes32(32)
DIH == Bytes32(41)
UPDATER == Bytes32(51)

Op(n) == Atom(int_to_bytes(n))

\* Conditions of a spend, each an opcode and its arguments
CreateCoin(ph, amount, tgt) == SExpList(<< Op(CREATE_COIN), Atom(ph), Op(amount), SExpList(<<Atom(tgt)>>) >>)
UpdateCond(key, value) == SExpList(<< Op(METADATA_UPDATE), Atom(UPDATER), Pair(Atom(key), value) >>)
ChangeOwner(did) == SExpList(<< Op(CHANGE_OWNER), Atom(did), Nil, Atom(PK1), SExpList(<<Atom(DIH)>>) >>)
AssertMyCoinId == SExpList(<< Op(70), Atom(TGT2) >>)

WalkConditions ==
    { CreateCoin(PH1, 1, TGT1),
      CreateCoin(PH2, 1, TGT2),
      SExpList(<< Op(CREATE_COIN), Atom(PH2), Op(1) >>),
      CreateCoin(PH1, 0, TGT1),
      SExpList(<< Op(CREATE_COIN), Atom(PH1) >>),
      SExpList(<< Op(CREATE_COIN) >>),
      UpdateCond(K_u, Atom(V_a)),
      UpdateCond(K_u, Atom(V_b)),
      UpdateCond(K_mu, Atom(V_a)),
      SExpList(<< Op(METADATA_UPDATE), Atom(UPDATER) >>),
      SExpList(<< Op(METADATA_UPDATE) >>),
      ChangeOwner(DID1),
      AssertMyCoinId }

RecurryConditions ==
    { CreateCoin(PH1, 1, TGT1),
      SExpList(<< Op(CREATE_COIN) >>),
      ChangeOwner(DID1),
      ChangeOwner(DID2),
      AssertMyCoinId }

RECURSIVE SeqsUpTo(_, _)
SeqsUpTo(S, n) ==
    IF n = 0 THEN { <<>> }
    ELSE SeqsUpTo(S, n - 1) \cup { Append(s, x) : s \in { q \in SeqsUpTo(S, n - 1) : Len(q) = n - 1 }, x \in S }

\* The metadata an NFT carries when a spend is interpreted
WalkMetadatas ==
    { PyDict(<< [k |-> K_u, v |-> PyBytes(<<>>)], [k |-> K_h, v |-> PyBytes(V_b)] >>),
      PyDict(<< [k |-> K_h, v |-> PyBytes(V_b)], [k |-> K_u, v |-> PyList(<<PyBytes(V_b)>>)] >>) }

TRANSFER_PROGRAM == Pair(Atom(<<2>>), Atom(<<28>>))
P2A == curry(STANDARD_PUZZLE_MOD, <<Atom(PK1)>>)
P2B == curry(STANDARD_PUZZLE_MOD, <<Atom(PK2)>>)

UncurriedNFT(owner_did, metadata) ==
    [owner_did |-> owner_did, metadata |-> metadata, transfer_program |-> TRANSFER_PROGRAM]

\* The solution a spend of the NFT carries for its conditions: the p2
\* solution itself when the NFT has no owner, wrapped once more for the
\* ownership layer when it has one
SolutionFor(owner_did, conds) ==
    LET p2 == solution_for_conditions(PyProgram(SExpList(conds)))
    IN IF owner_did_truth(owner_did) THEN SExpList(<<p2>>) ELSE p2

\* ------------------------------------------------------------- actions
Init ==
    /\ pc = "idle"
    /\ inp = [op |-> "none"]
    /\ out = PyNone

Encode ==
    /\ pc = "idle"
    /\ \E m \in Metadatas :
        /\ inp' = [op |-> "metadata_to_program", metadata |-> m]
        /\ out' = metadata_to_program(m)
    /\ pc' = "encoded"

Decode ==
    /\ pc = "encoded"
    /\ inp' = [op |-> "program_to_metadata", metadata |-> inp.metadata, program |-> out]
    /\ out' = program_to_metadata(out)
    /\ pc' = "decoded"

Prepend ==
    /\ pc = "idle"
    /\ \E m \in Metadatas, key \in Keys, value \in {Nil, Atom(V_a), Atom(V_b)} :
        /\ inp' = [op |-> "prepend_value", key |-> key, value |-> value, metadata |-> m]
        /\ out' = prepend_value(key, value, m)
    /\ pc' = "prepended"

Walk ==
    /\ pc = "idle"
    /\ \E owner_did \in {PyNone, PyBytes(DID0)}, m \in WalkMetadatas,
          conds \in SeqsUpTo(WalkConditions, MaxConds) :
        LET unft == UncurriedNFT(owner_did, metadata_to_program(m))
            solution == SolutionFor(owner_did, conds)
        IN /\ inp' = [op |-> "get_metadata_and_phs", unft |-> unft, conds |-> conds,
                      solution |-> solution]
           /\ out' = get_metadata_and_phs(unft, solution)
    /\ pc' = "walked"

Recurry ==
    /\ pc = "idle"
    /\ \E new_p2_puzzle \in {P2A, P2B}, conds \in SeqsUpTo(RecurryConditions, MaxConds) :
        LET unft == UncurriedNFT(PyBytes(DID0), Nil)
            solution == SolutionFor(unft.owner_did, conds)
        IN /\ inp' = [op |-> "recurry_nft_puzzle", unft |-> unft, conds |-> conds,
                      new_p2_puzzle |-> new_p2_puzzle, solution |-> solution]
           /\ out' = recurry_nft_puzzle(unft, new_p2_puzzle, PyList(<<>>), solution)
    /\ pc' = "recurried"

TradePrices == { PyList(<<>>), PyList(<< PyList(<< PyInt(1000), PyBytes(TGT2) >>) >>) }
ExtraConditions == { PyList(<<>>), PyList(<< PyList(<< PyInt(70), PyBytes(TGT2) >>) >>) }

Build ==
    /\ pc = "idle"
    /\ \E new_did \in {DID1, DID2}, trade_prices_list \in TradePrices, new_pubkey \in PubKeys,
          target_puzzle_hash \in {TGT1, TGT2}, conditions \in ExtraConditions :
        /\ inp' = [op |-> "create_ownership_layer_transfer_solution", new_did |-> new_did,
                   new_did_inner_hash |-> DIH, trade_prices_list |-> trade_prices_list,
                   new_pubkey |-> new_pubkey, target_puzzle_hash |-> target_puzzle_hash,
                   conditions |-> conditions]
        /\ out' = create_ownership_layer_transfer_solution(
                      new_did, DIH, trade_prices_list, new_pubkey, target_puzzle_hash,
                      conditions)
    /\ pc' = "built"

\* The spend built above is observed: the ownership-layer solution is the
\* first element of the built solution.
InterpretBuilt ==
    /\ pc = "built"
    /\ \E m \in WalkMetadatas, new_p2_puzzle \in {P2A, P2B} :
        LET unft == UncurriedNFT(PyBytes(DID0), metadata_to_program(m))
        IN /\ inp' = [inp EXCEPT !.op = "interpret_built"] @@
                     [unft |-> unft, new_p2_puzzle |-> new_p2_puzzle, solution |-> out]
           /\ out' = [t |-> "interpreted",
                      walk |-> get_metadata_and_phs(unft, first(out)),
                      puzzle |-> recurry_nft_puzzle(unft, new_p2_puzzle, PyList(<<>>), first(out))]
    /\ pc' = "interpreted"

Return ==
    /\ pc \in {"decoded", "prepended", "walked", "recurried", "interpreted"}
    /\ pc' = "idle"
    /\ inp' = [op |-> "none"]
    /\ out' = PyNone

Next ==
    \/ Encode
    \/ Decode
    \/ Prepend
    \/ Walk
    \/ Recurry
    \/ Build
    \/ InterpretBuilt
    \/ Return

Spec == Init /\ [][Next]_vars

\* ================================================================ claims
\* Helpers of the statements: the opcode of a condition that has one, and
\* the conditions a statement singles out.
OpcodeIs(c, n) == IsPair(c) /\ IsAtom(c.f) /\ int_from_bytes(c.f.b) = n

Qualifying(c) ==
    /\ OpcodeIs(c, 51)
    /\ list_len(c) >= 3
    /\ IsAtom(c.r.r.f)
    /\ int_from_bytes(c.r.r.f.b) = 1

QualifyingAt(conds) == { i \in 1..Len(conds) : Qualifying(conds[i]) }
FirstQualifying(conds) == CHOOSE i \in QualifyingAt(conds) : \A j \in QualifyingAt(conds) : i <= j

ChangeOwnerAt(conds) == { i \in 1..Len(conds) : OpcodeIs(conds[i], -10) }
FirstChangeOwner(conds) == CHOOSE i \in ChangeOwnerAt(conds) : \A j \in ChangeOwnerAt(conds) : i <= j

\* The walk of the same NFT over another condition list
WalkOf(unft, conds) == get_metadata_and_phs(unft, SolutionFor(unft.owner_did, conds))

\* ---------------------------------------------------------------- C1
\* C1: when the effect list holds no ownership-change effect (opcode -10),
\* empty list included, recurry_nft_puzzle returns the new payment puzzle
\* itself.  (The claim as stated; the code does not satisfy it.)
C1_NoChangeOwnerGivesP2 ==
    (pc = "recurried" /\ ChangeOwnerAt(inp.conds) = {}) => out = inp.new_p2_puzzle

\* ---------------------------------------------------------------- C2
IsLaterQualifying(conds, i) == Qualifying(conds[i]) /\ i # FirstQualifying(conds)

RECURSIVE WithoutLaterQualifying(_, _)
WithoutLaterQualifying(conds, i) ==
    IF i > Len(conds) THEN <<>>
    ELSE (IF IsLaterQualifying(conds, i) THEN <<>> ELSE <<conds[i]>>)
         \o WithoutLaterQualifying(conds, i + 1)

\* C2: with two or more qualifying create-coin effects, a returned
\* destination puzzle hash and inner-puzzle hash are those of the first one
\* in list order, and the later qualifying effects change nothing: the walk
\* ends exactly as it does on the list without them.
C2_FirstCreateCoinWins ==
    (pc = "walked" /\ Cardinality(QualifyingAt(inp.conds)) >= 2) =>
        LET c == inp.conds[FirstQualifying(inp.conds)]
        IN /\ ~IsErr(out) =>
                /\ out.puzhash = PyBytes(c.r.r.r.f.f.b)
                /\ out.inner_ph = PyBytes(c.r.f.b)
           /\ out = WalkOf(inp.unft, WithoutLaterQualifying(inp.conds, 1))

C2_Witness ==
    /\ pc = "walked"
    /\ Len(inp.conds) = 3
    /\ inp.conds[1] = CreateCoin(PH1, 1, TGT1)
    /\ inp.conds[2] = CreateCoin(PH2, 1, TGT2)
    /\ inp.conds[3] = SExpList(<< Op(CREATE_COIN), Atom(PH2), Op(1) >>)
    /\ ~IsErr(out)
    /\ out.puzhash = PyBytes(TGT1)
    /\ out.inner_ph = PyBytes(PH1)

\* ---------------------------------------------------------------- C3
\* C3 as stated, on effect lists whose every entry carries at least two
\* arguments: with no qualifying create-coin effect the walk fails with the
\* final assertion (MissingDestination), whatever else the list holds.
C3_AlwaysMissingDestination ==
    (/\ pc = "walked"
     /\ QualifyingAt(inp.conds) = {}
     /\ \A i \in 1..Len(inp.conds) : list_len(inp.conds[i]) >= 3)
        => out = Err("AssertionError")

\* An entry that raises on its own when the loop body runs on it
EntryFails(unft, c) == IsErr(condition_step(WalkState(unft.metadata, PyNone, PyNone), c))

\* C3 (amended): with no qualifying create-coin effect the walk never
\* returns a result; it fails with the final assertion (MissingDestination)
\* exactly when no entry already failed during the walk, and with that
\* entry's failure otherwise.
C3_NeverReturnsWithoutDestination ==
    (pc = "walked" /\ QualifyingAt(inp.conds) = {}) =>
        /\ IsErr(out)
        /\ (out = Err("AssertionError"))
              <=> (\A i \in 1..Len(inp.conds) : ~EntryFails(inp.unft, inp.conds[i]))

C3_Witness ==
    /\ pc = "walked"
    /\ inp.conds = << UpdateCond(K_u, Atom(V_a)), CreateCoin(PH1, 0, TGT1), ChangeOwner(DID1) >>
    /\ out = Err("AssertionError")

\* ---------------------------------------------------------------- C4
\* C4: when the effect list holds an ownership-change effect, the result is
\* the ownership template curried with (template hash, the owner id of the
\* first such effect, the unchanged transfer program, the new payment puzzle).
C4_ChangeOwnerRecurries ==
    (pc = "recurried" /\ ChangeOwnerAt(inp.conds) # {}) =>
        out = curry(NFT_OWNERSHIP_LAYER,
                    << Atom(get_tree_hash(NFT_OWNERSHIP_LAYER)),
                       inp.conds[FirstChangeOwner(inp.conds)].r.f,
                       inp.unft.transfer_program,
                       inp.new_p2_puzzle >>)

C4_Witness ==
    /\ pc = "recurried"
    /\ inp.conds = << CreateCoin(PH1, 1, TGT1), ChangeOwner(DID2), ChangeOwner(DID1) >>
    /\ inp.new_p2_puzzle = P2B
    /\ out = curry(NFT_OWNERSHIP_LAYER,
                   << Atom(get_tree_hash(NFT_OWNERSHIP_LAYER)), Atom(DID2),
                      TRANSFER_PROGRAM, P2B >>)

\* ---------------------------------------------------------------- C5
HasTwoArguments(c) == list_len(c) >= 3

\* C5: an entry with fewer than 2 arguments (at most an opcode and one
\* argument) is skipped, whatever its opcode: the walk ends exactly as it
\* does on the list without such entries.  (The claim as stated; the code
\* does not satisfy it.)
C5_ShortEntriesSkipped ==
    pc = "walked" => out = WalkOf(inp.unft, SelectSeq(inp.conds, HasTwoArguments))

\* ---------------------------------------------------------------- C6
FFRFR == << "f", "f", "r", "f", "r" >>

\* C6: the effect list embedded in the built solution has exactly two
\* entries: (51, tree hash of standardPuzzle(new_pubkey), 1,
\* [target_puzzle_hash]) and then (-10, new_did, trade_prices_list,
\* new_pubkey, [new_did_inner_hash]); nothing else, whatever is passed as
\* conditions.
C6_ExactlyTwoEffects ==
    pc = "built" =>
        LET effects == at(out, FFRFR)
        IN /\ ~IsErr(effects)
           /\ list_len(effects) = 2
           /\ effects.r.r = Nil
           /\ effects.f =
                SExpList(<< Atom(<<51>>),
                            Atom(get_tree_hash(curry(STANDARD_PUZZLE_MOD, <<Atom(inp.new_pubkey)>>))),
                            Atom(<<1>>),
                            SExpList(<< Atom(inp.target_puzzle_hash) >>) >>)
           /\ effects.r.f =
                SExpList(<< Atom(<<246>>),
                            Atom(inp.new_did),
                            to_program(inp.trade_prices_list),
                            Atom(inp.new_pubkey),
                            SExpList(<< Atom(inp.new_did_inner_hash) >>) >>)

C6_Witness ==
    /\ pc = "built"
    /\ Len(inp.conditions.l) > 0
    /\ Len(inp.trade_prices_list.l) > 0
    /\ inp.new_pubkey = PK2
    /\ list_len(at(out, FFRFR)) = 2

\* ---------------------------------------------------------------- C7
OnlyKeyChanged(before, after, key, v) ==
    /\ after.t = "dict"
    /\ Len(after.d) = Len(before.d)
    /\ \A i \in 1..Len(before.d) :
          /\ after.d[i].k = before.d[i].k
          /\ after.d[i].v = IF before.d[i].k = key THEN v ELSE before.d[i].v

\* C7: on a present key, the empty value changes nothing; a non-empty v
\* turns the empty-byte sentinel into [v] and an existing list l into
\* [v] + l (v in front, never behind), leaving every other key and the key
\* order as they were.  (Where the current value is a non-empty scalar
\* there is no list to insert into: the call raises AttributeError.)
C7_PrependOnListOrSentinel ==
    (pc = "prepended" /\ HasKey(inp.metadata, inp.key)) =>
        LET current == DictGet(inp.metadata, inp.key)
            v == PyBytes(inp.value.b)
        IN IF inp.value = Nil THEN out = inp.metadata
           ELSE IF current = PyBytes(<<>>)
                THEN OnlyKeyChanged(inp.metadata, out, inp.key, PyList(<<v>>))
           ELSE IF current.t = "list"
                THEN OnlyKeyChanged(inp.metadata, out, inp.key, PyList(<<v>> \o current.l))
           ELSE out = Err("AttributeError")

C7_Witness ==
    /\ pc = "prepended"
    /\ Len(inp.metadata.d) = 2
    /\ inp.key = K_u
    /\ HasKey(inp.metadata, K_u)
    /\ DictGet(inp.metadata, K_u) = PyList(<< PyBytes(V_a) >>)
    /\ inp.value = Atom(V_b)
    /\ DictGet(out, K_u) = PyList(<< PyBytes(V_b), PyBytes(V_a) >>)

\* ---------------------------------------------------------------- C8
Normalized(m) ==
    PyDict([i \in 1..Len(m.d) |->
              [k |-> m.d[i].k,
               v |-> IF m.d[i].v = PyList(<<>>) THEN PyBytes(<<>>) ELSE m.d[i].v]])

\* C8: decoding the encoding of a metadata mapping gives the mapping back,
\* same keys in the same order with the same values, an empty list value
\* becoming the empty-byte sentinel.
C8_CodecRoundTrip == pc = "decoded" => out = Normalized(inp.metadata)

C8_Witness ==
    /\ pc = "decoded"
    /\ Len(inp.metadata.d) = 2
    /\ inp.metadata.d[1].v = PyList(<<>>)
    /\ inp.metadata.d[2].v = PyList(<< PyBytes(V_b), PyBytes(V_a) >>)
    /\ out # inp.metadata
    /\ out.d[1].v = PyBytes(<<>>)

\* ---------------------------------------------------------------- C9
IsUpdate(c) == OpcodeIs(c, -24) /\ list_len(c) >= 3

RECURSIVE PrependAll(_, _)
PrependAll(metadata, updates) ==
    IF Len(updates) = 0 \/ IsErr(metadata) THEN metadata
    ELSE PrependAll(prepend_value(Head(updates).r.r.f.f.b, Head(updates).r.r.f.r, metadata),
                    Tail(updates))

\* C9: when the walk returns, the returned metadata is the current metadata
\* with prepend applied once per metadata-update effect, in list order,
\* wherever the create-coin effects stand; with no metadata-update effect it
\* is the current metadata itself.
C9_UpdatesApplyInOrder ==
    (pc = "walked" /\ QualifyingAt(inp.conds) # {} /\ ~IsErr(out)) =>
        /\ program_to_metadata(out.metadata)
             = PrependAll(program_to_metadata(inp.unft.metadata), SelectSeq(inp.conds, IsUpdate))
        /\ Len(SelectSeq(inp.conds, IsUpdate)) = 0 => out.metadata = inp.unft.metadata

C9_Witness ==
    /\ pc = "walked"
    /\ inp.conds = << UpdateCond(K_u, Atom(V_a)), CreateCoin(PH1, 1, TGT1),
                      UpdateCond(K_u, Atom(V_b)) >>
    /\ ~IsErr(out)
    /\ DictGet(program_to_metadata(inp.unft.metadata), K_u) = PyList(<< PyBytes(V_b) >>)
    /\ DictGet(program_to_metadata(out.metadata), K_u)
         = PyList(<< PyBytes(V_b), PyBytes(V_a), PyBytes(V_b) >>)

\* ---------------------------------------------------------------- C10
\* C10: the walk of an owned NFT over the first element of a built transfer
\* solution returns the metadata unchanged, the target puzzle hash as
\* destination and the tree hash of standardPuzzle(new_pubkey) as inner
\* puzzle hash; recurry on it gives an ownership layer owned by new_did.
C10_BuilderRoundTrip ==
    pc = "interpreted" =>
        /\ ~IsErr(out.walk)
        /\ out.walk.metadata = inp.unft.metadata
        /\ out.walk.puzhash = PyBytes(inp.target_puzzle_hash)
        /\ out.walk.inner_ph
             = PyBytes(get_tree_hash(curry(STANDARD_PUZZLE_MOD, <<Atom(inp.new_pubkey)>>)))
        /\ out.puzzle = curry(NFT_OWNERSHIP_LAYER,
                              << Atom(get_tree_hash(NFT_OWNERSHIP_LAYER)), Atom(inp.new_did),
                                 inp.unft.transfer_program, inp.new_p2_puzzle >>)

C10_Witness ==
    /\ pc = "interpreted"
    /\ inp.new_did = DID2
    /\ inp.target_puzzle_hash = TGT2
    /\ inp.new_pubkey = PK2
    /\ Len(inp.trade_prices_list.l) > 0
    /\ ~IsErr(out.walk)
    /\ out.walk.puzhash = PyBytes(TGT2)

====
